---- MODULE Spec2Model ----
(***************************************************************************)
(* A model of the UTXO ledger indexer: the in-memory index (AppState of    *)
(* src/index.ts), the five relations of the store (schema.ts) and the      *)
(* request handlers POST /blocks, GET /blocks, GET /balance/:address,      *)
(* POST /rollback and POST /reset.                                         *)
(*                                                                         *)
(* Every dbPool.query of the handlers is its own statement: the source     *)
(* opens no transaction, so a statement that fails leaves the statements   *)
(* before it committed.                                                    *)
(***************************************************************************)
EXTENDS Integers, Sequences, FiniteSets, TLC

VARIABLES
    blocks,         \* state.blocks: the accepted blocks, full payload
    currentHeight,  \* state.currentHeight
    balances,       \* state.balances: address -> JavaScript value
    utxos,          \* state.utxos: "txId:index" -> Output
    db,             \* the store: blocks, transactions, inputs, outputs, balances
    reply,          \* the reply of the last request
    request,        \* the last request, when it is observed
    inflight        \* the handlers that have begun and not yet been retired

vars == <<blocks, currentHeight, balances, utxos, db, reply, request, inflight>>

(***************************************************************************)
(* Bounds of the model.                                                    *)
(***************************************************************************)
\* No block of a greater height is submitted.
MaxHeight == 2

TxIds == {"t1", "t2"}

Addresses == {"a", "b"}

\* The UTXO references an input may carry.
Refs == {[txId |-> t, index |-> 0] : t \in TxIds}

\* Input lists: none, one reference, or the first output of t1 twice.
InputLists ==
    {<<>>} \cup {<<r>> : r \in Refs}
    \cup {<<[txId |-> "t1", index |-> 0], [txId |-> "t1", index |-> 0]>>}

\* Output lists: one output, or two outputs; every value is 1.
OutputLists ==
    { <<[address |-> "b", value |-> 1]>>,
      <<[address |-> "a", value |-> 1], [address |-> "b", value |-> 1]>> }

Transactions ==
    [id : TxIds, inputs : InputLists, outputs : OutputLists]

\* A block carries at most two transactions.
TransactionLists ==
    {<<>>} \cup {<<t>> : t \in Transactions}
    \cup {<<t, u>> : t \in Transactions, u \in Transactions}


(***************************************************************************)
(* JavaScript values held by state.balances.  A balance is a number, or,   *)
(* after a rollback, the decimal string node-postgres returns for the      *)
(* bigint column COALESCE(SUM(value), 0).  A string is kept as the integer *)
(* its digits spell: every use of it (the - operator, the + operator, the  *)
(* integer parameter of the upsert) depends on the digits only.            *)
(***************************************************************************)
JsNumber(n) == [type |-> "number", n |-> n]

JsString(n) == [type |-> "string", n |-> n]

\* Number(x): the number a balance converts to.
ToNumber(x) == x.n

RECURSIVE DecimalLength(_)
\* The length of n.toString() for n >= 0.
DecimalLength(n) == IF n < 10 THEN 1 ELSE 1 + DecimalLength(n \div 10)

RECURSIVE Pow10(_)
Pow10(k) == IF k = 0 THEN 1 ELSE 10 * Pow10(k - 1)

\* (state.balances[address] || 0): an absent entry and the number 0 give 0;
\* a string of digits is truthy, "0" included.
OrZero(bal, address) ==
    IF address \in DOMAIN bal THEN bal[address] ELSE JsNumber(0)

\* x - value: both operands are converted to numbers.
JsMinus(x, value) == JsNumber(ToNumber(x) - value)

\* x + value: addition of numbers; with a string on the left the digits of
\* value are appended to it.
JsPlus(x, value) ==
    IF x.type = "string"
    THEN JsString(x.n * Pow10(DecimalLength(value)) + value)
    ELSE JsNumber(x.n + value)

\* f with key k set to v.
Put(f, k, v) == [x \in DOMAIN f \cup {k} |-> IF x = k THEN v ELSE f[x]]

\* f without key k.
Remove(f, k) == [x \in DOMAIN f \ {k} |-> f[x]]

EmptyMap == [x \in {} |-> 0]

\* `${txId}:${index}`
UtxoKey(txId, index) == txId \o ":" \o ToString(index)

(***************************************************************************)
(* The store.  blocks: id PRIMARY KEY, height UNIQUE.  transactions: id    *)
(* PRIMARY KEY, block_id REFERENCES blocks ON DELETE CASCADE.  inputs:     *)
(* SERIAL id, tx_id REFERENCES transactions ON DELETE CASCADE; the rows    *)
(* are a bag (row -> number of copies).  outputs: PRIMARY KEY (txid, idx). *)
(* balances: address PRIMARY KEY, kept as address -> balance.              *)
(***************************************************************************)
EmptyDb ==
    [blocks |-> {}, transactions |-> {}, inputs |-> EmptyMap,
     outputs |-> {}, balances |-> EmptyMap]

\* The insert into a table that has no key.
InsertBlock_NoKey(d, id, height) ==
    [ok |-> TRUE,
     db |-> [d EXCEPT !.blocks = @ \cup {[id |-> id, height |-> height]}]]

\* INSERT INTO blocks (id, height)
InsertBlock(d, id, height) ==
    IF \E r \in d.blocks : r.id = id \/ r.height = height
    THEN [ok |-> FALSE, db |-> d]
    ELSE [ok |-> TRUE,
          db |-> [d EXCEPT !.blocks = @ \cup {[id |-> id, height |-> height]}]]

\* INSERT INTO transactions (id, block_id)
InsertTransaction(d, id, block_id) ==
    IF (\E r \in d.transactions : r.id = id)
       \/ ~(\E b \in d.blocks : b.id = block_id)
    THEN [ok |-> FALSE, db |-> d]
    ELSE [ok |-> TRUE,
          db |-> [d EXCEPT !.transactions =
                      @ \cup {[id |-> id, block_id |-> block_id]}]]

\* INSERT INTO inputs (tx_id, spent_utxo_txid, spent_utxo_index)
InsertInput(d, tx_id, txid, index) ==
    LET row == [tx_id |-> tx_id, spent_utxo_txid |-> txid,
                spent_utxo_index |-> index]
    IN  IF ~(\E t \in d.transactions : t.id = tx_id)
        THEN [ok |-> FALSE, db |-> d]
        ELSE [ok |-> TRUE,
              db |-> [d EXCEPT !.inputs =
                          Put(@, row, IF row \in DOMAIN @ THEN @[row] + 1 ELSE 1)]]

\* UPDATE outputs SET is_spent = TRUE WHERE txid = $1 AND idx = $2
MarkSpent(d, txid, idx) ==
    [ok |-> TRUE,
     db |-> [d EXCEPT !.outputs =
                 {IF o.txid = txid /\ o.idx = idx
                  THEN [o EXCEPT !.is_spent = TRUE] ELSE o : o \in @}]]

\* INSERT INTO outputs (txid, idx, address, value, is_spent)
InsertOutput(d, txid, idx, address, value) ==
    IF \E o \in d.outputs : o.txid = txid /\ o.idx = idx
    THEN [ok |-> FALSE, db |-> d]
    ELSE [ok |-> TRUE,
          db |-> [d EXCEPT !.outputs =
                      @ \cup {[txid |-> txid, idx |-> idx, address |-> address,
                               value |-> value, is_spent |-> FALSE]}]]

\* INSERT INTO balances ... ON CONFLICT (address) DO UPDATE SET balance = $2
UpsertBalance(d, address, balance) ==
    [ok |-> TRUE, db |-> [d EXCEPT !.balances = Put(@, address, balance)]]

\* SELECT t.id FROM transactions t JOIN blocks b ON t.block_id = b.id
\* WHERE b.height > $1
DeletedTxIds(d, n) ==
    {t.id : t \in {x \in d.transactions :
                      \E b \in d.blocks : b.id = x.block_id /\ b.height > n}}

\* The update that resurrects nothing.
RestoreSpent_Nothing(d, ids) == d

\* UPDATE outputs SET is_spent = FALSE WHERE (txid, idx) IN (SELECT
\* spent_utxo_txid, spent_utxo_index FROM inputs WHERE tx_id IN (...))
RestoreSpent(d, ids) ==
    [d EXCEPT !.outputs =
        {IF \E i \in DOMAIN d.inputs :
                /\ i.tx_id \in ids
                /\ i.spent_utxo_txid = o.txid
                /\ i.spent_utxo_index = o.idx
         THEN [o EXCEPT !.is_spent = FALSE] ELSE o : o \in @}]

\* DELETE FROM outputs WHERE txid IN (...)
DeleteOutputs(d, ids) ==
    [d EXCEPT !.outputs = {o \in @ : o.txid \notin ids}]

\* DELETE FROM blocks WHERE height > $1, with the cascade to transactions
\* and from them to inputs.
DeleteBlocks(d, n) ==
    LET keptBlocks == {b \in d.blocks : b.height <= n}
        keptTxs    == {t \in d.transactions :
                          \E b \in keptBlocks : b.id = t.block_id}
        keptInputs == {i \in DOMAIN d.inputs :
                          \E t \in keptTxs : t.id = i.tx_id}
    IN  [d EXCEPT !.blocks = keptBlocks,
                  !.transactions = keptTxs,
                  !.inputs = [i \in keptInputs |-> d.inputs[i]]]

\* DELETE FROM inputs WHERE tx_id IN (...)
DeleteInputs(d, ids) ==
    [d EXCEPT !.inputs =
        [i \in {x \in DOMAIN d.inputs : x.tx_id \notin ids} |-> d.inputs[i]]]

RECURSIVE SumValues(_)
SumValues(rows) ==
    IF rows = {} THEN 0
    ELSE LET r == CHOOSE x \in rows : TRUE
         IN  r.value + SumValues(rows \ {r})

\* SELECT address, COALESCE(SUM(value), 0) as balance FROM outputs
\* WHERE is_spent = FALSE GROUP BY address.  The sum is a bigint, which the
\* driver hands over as a string of digits.
SelectBalances(d) ==
    LET unspent == {o \in d.outputs : ~o.is_spent}
    IN  [a \in {o.address : o \in unspent} |->
            JsString(SumValues({o \in unspent : o.address = a}))]

\* INSERT INTO balances (address, balance)
InsertBalance(d, address, balance) ==
    IF address \in DOMAIN d.balances
    THEN [ok |-> FALSE, db |-> d]
    ELSE [ok |-> TRUE, db |-> [d EXCEPT !.balances = Put(@, address, balance)]]

\* One statement against the store.  A height parameter that is no integer
\* cannot be compared with the integer column height: the statement fails.
Execute(d, s) ==
    CASE s.op = "insertBlock"       -> InsertBlock(d, s.id, s.height)
      [] s.op = "insertTransaction" -> InsertTransaction(d, s.id, s.block_id)
      [] s.op = "insertInput"       -> InsertInput(d, s.tx_id, s.txid, s.index)
      [] s.op = "markSpent"         -> MarkSpent(d, s.txid, s.idx)
      [] s.op = "insertOutput"      ->
             InsertOutput(d, s.txid, s.idx, s.address, s.value)
      [] s.op = "upsertBalance"     -> UpsertBalance(d, s.address, s.balance)
      [] s.op = "selectDeleted"     -> [ok |-> s.integer, db |-> d]
      [] s.op = "restoreSpent"      -> [ok |-> TRUE, db |-> RestoreSpent(d, s.ids)]
      [] s.op = "deleteOutputs"     -> [ok |-> TRUE, db |-> DeleteOutputs(d, s.ids)]
      [] s.op = "deleteBlocks"      -> [ok |-> TRUE, db |-> DeleteBlocks(d, s.n)]
      [] s.op = "deleteInputs"      -> [ok |-> TRUE, db |-> DeleteInputs(d, s.ids)]
      [] s.op = "selectBalances"    -> [ok |-> TRUE, db |-> d]
      [] s.op = "deleteBalances"    ->
             [ok |-> TRUE, db |-> [d EXCEPT !.balances = EmptyMap]]
      [] s.op = "insertBalance"     -> InsertBalance(d, s.address, s.balance)
      [] s.op = "deleteAllOutputs"  ->
             [ok |-> TRUE, db |-> [d EXCEPT !.outputs = {}]]
      [] s.op = "deleteAllInputs"   ->
             [ok |-> TRUE, db |-> [d EXCEPT !.inputs = EmptyMap]]
      [] s.op = "deleteAllTransactions" ->
             [ok |-> TRUE, db |-> [d EXCEPT !.transactions = {},
                                             !.inputs = EmptyMap]]
      [] s.op = "deleteAllBlocks"   ->
             [ok |-> TRUE, db |-> [d EXCEPT !.blocks = {},
                                             !.transactions = {},
                                             !.inputs = EmptyMap]]

RECURSIVE RunStatements_IgnoresErrors(_, _, _)
\* The statements run to the end whatever the store answers.
RunStatements_IgnoresErrors(d, stmts, failAt) ==
    IF stmts = <<>> THEN [ok |-> TRUE, db |-> d]
    ELSE RunStatements_IgnoresErrors(Execute(d, Head(stmts)).db, Tail(stmts),
                                     failAt)

RECURSIVE RunStatements(_, _, _)
\* The statements of a request run in order, each awaited; the first one
\* that fails (a constraint, or the connection at statement failAt) throws,
\* and the ones before it stay in the store: no handler opens a transaction.
RunStatements(d, stmts, failAt) ==
    IF stmts = <<>> THEN [ok |-> TRUE, db |-> d]
    ELSE IF failAt = 1 THEN [ok |-> FALSE, db |-> d]
    ELSE LET r == Execute(d, Head(stmts))
         IN  IF ~r.ok THEN r
             ELSE RunStatements(r.db, Tail(stmts),
                                IF failAt = 0 THEN 0 ELSE failAt - 1)

(***************************************************************************)
(* Replies.  A reply carries the HTTP status, the kind of its error ("" on *)
(* success) and the fields the handler sends with it.                      *)
(***************************************************************************)
Reply(op, status, error) ==
    [op |-> op, status |-> status, error |-> error, height |-> 0,
     key |-> "", expected |-> "", received |-> ""]

\* The state a handler works on: the in-memory index and the store.
State ==
    [blocks |-> blocks, currentHeight |-> currentHeight,
     balances |-> balances, utxos |-> utxos, db |-> db]

EmptyState ==
    [blocks |-> <<>>, currentHeight |-> 0, balances |-> EmptyMap,
     utxos |-> EmptyMap, db |-> EmptyDb]

(***************************************************************************)
(* POST /blocks: validation.                                               *)
(***************************************************************************)
\* Height validation: the height a block must carry.
ExpectedHeight(height) == IF height = 0 THEN 1 ELSE height + 1

HeightValid_AnyHigher(S, block) == block.height > S.currentHeight

HeightValid(S, block) == block.height = ExpectedHeight(S.currentHeight)

RECURSIVE SumInputs_SkipsMissing(_, _, _)
SumInputs_SkipsMissing(inputs, u, sum) ==
    IF inputs = <<>> THEN [found |-> TRUE, key |-> "", sum |-> sum]
    ELSE LET utxoKey == UtxoKey(Head(inputs).txId, Head(inputs).index)
         IN  SumInputs_SkipsMissing(Tail(inputs), u,
                 IF utxoKey \in DOMAIN u THEN sum + u[utxoKey].value ELSE sum)

RECURSIVE SumInputs(_, _, _)
\* The loop over transaction.inputs: the first input whose key is not in
\* state.utxos ends it; otherwise the values of the referenced UTXOs add up.
SumInputs(inputs, u, sum) ==
    IF inputs = <<>> THEN [found |-> TRUE, key |-> "", sum |-> sum]
    ELSE LET utxoKey == UtxoKey(Head(inputs).txId, Head(inputs).index)
         IN  IF utxoKey \notin DOMAIN u
             THEN [found |-> FALSE, key |-> utxoKey, sum |-> sum]
             ELSE SumInputs(Tail(inputs), u, sum + u[utxoKey].value)

RECURSIVE SumOutputs(_)
SumOutputs(outputs) ==
    IF outputs = <<>> THEN 0
    ELSE Head(outputs).value + SumOutputs(Tail(outputs))

SumsDiffer_LessThan(sumInputs, sumOutputs, inputs) ==
    sumInputs < sumOutputs /\ Len(inputs) > 0

\* sumInputs !== sumOutputs && transaction.inputs.length > 0
SumsDiffer(sumInputs, sumOutputs, inputs) ==
    sumInputs # sumOutputs /\ Len(inputs) > 0

RECURSIVE ValidateTransactions(_, _)
\* The loop over block.transactions: each transaction has its inputs looked
\* up and then its sums compared, before the next transaction is looked at.
ValidateTransactions(txs, u) ==
    IF txs = <<>> THEN Reply("submit", 200, "")
    ELSE LET tx  == Head(txs)
             ins == SumInputs(tx.inputs, u, 0)
         IN  IF ~ins.found
             THEN [Reply("submit", 400, "InputNotFound") EXCEPT !.key = ins.key]
             ELSE IF SumsDiffer(ins.sum, SumOutputs(tx.outputs), tx.inputs)
             THEN Reply("submit", 400, "ValueMismatch")
             ELSE ValidateTransactions(Tail(txs), u)

RECURSIVE ConcatIds(_)
ConcatIds(txs) == IF txs = <<>> THEN "" ELSE Head(txs).id \o ConcatIds(Tail(txs))

\* The data with a separator between the height and the transaction ids.
DataToHash_Separated(height, txs) ==
    ToString(height) \o ":" \o ConcatIds(txs)

\* dataToHash: block.height.toString() followed by the transaction ids.
DataToHash(height, txs) == ToString(height) \o ConcatIds(txs)

\* createHash('sha256').update(data).digest('hex'): distinct data, distinct
\* digests.
Sha256Hex(data) == "sha256(" \o data \o ")"

ExpectedBlockId_NoHeight(height, txs) == Sha256Hex(ConcatIds(txs))

ExpectedBlockId(height, txs) == Sha256Hex(DataToHash(height, txs))

Validate_IdFirst(S, block) ==
    IF ~HeightValid(S, block) THEN Reply("submit", 400, "InvalidHeight")
    ELSE IF block.id # ExpectedBlockId(block.height, block.transactions)
    THEN [Reply("submit", 400, "InvalidBlockId") EXCEPT
              !.expected = ExpectedBlockId(block.height, block.transactions),
              !.received = block.id]
    ELSE ValidateTransactions(block.transactions, S.utxos)

\* The four checks in the order of the handler; status 200 when all pass.
Validate(S, block) ==
    IF ~HeightValid(S, block) THEN Reply("submit", 400, "InvalidHeight")
    ELSE LET v == ValidateTransactions(block.transactions, S.utxos)
         IN  IF v.status # 200 THEN v
             ELSE IF block.id # ExpectedBlockId(block.height, block.transactions)
             THEN [Reply("submit", 400, "InvalidBlockId") EXCEPT
                       !.expected = ExpectedBlockId(block.height,
                                                    block.transactions),
                       !.received = block.id]
             ELSE v

(***************************************************************************)
(* POST /blocks: the statements against the store.                         *)
(***************************************************************************)
RECURSIVE InputStatements(_, _)
InputStatements(tx_id, inputs) ==
    IF inputs = <<>> THEN <<>>
    ELSE << [op |-> "insertInput", tx_id |-> tx_id,
             txid |-> Head(inputs).txId, index |-> Head(inputs).index],
            [op |-> "markSpent", txid |-> Head(inputs).txId,
             idx |-> Head(inputs).index] >>
         \o InputStatements(tx_id, Tail(inputs))

RECURSIVE OutputStatements(_, _, _)
OutputStatements(tx_id, outputs, idx) ==
    IF outputs = <<>> THEN <<>>
    ELSE << [op |-> "insertOutput", txid |-> tx_id, idx |-> idx,
             address |-> Head(outputs).address, value |-> Head(outputs).value] >>
         \o OutputStatements(tx_id, Tail(outputs), idx + 1)

RECURSIVE TransactionStatements(_, _)
TransactionStatements(block_id, txs) ==
    IF txs = <<>> THEN <<>>
    ELSE << [op |-> "insertTransaction", id |-> Head(txs).id,
             block_id |-> block_id] >>
         \o InputStatements(Head(txs).id, Head(txs).inputs)
         \o OutputStatements(Head(txs).id, Head(txs).outputs, 0)
         \o TransactionStatements(block_id, Tail(txs))

BlockStatements(block) ==
    << [op |-> "insertBlock", id |-> block.id, height |-> block.height] >>
    \o TransactionStatements(block.id, block.transactions)

(***************************************************************************)
(* POST /blocks: the update of the in-memory UTXO set and balances.        *)
(***************************************************************************)
RECURSIVE SpendInputs(_, _)
\* m is [utxos, balances]
SpendInputs(inputs, m) ==
    IF inputs = <<>> THEN m
    ELSE LET utxoKey == UtxoKey(Head(inputs).txId, Head(inputs).index)
         IN  IF utxoKey \in DOMAIN m.utxos
             THEN LET utxo == m.utxos[utxoKey]
                  IN  SpendInputs(Tail(inputs),
                          [utxos |-> Remove(m.utxos, utxoKey),
                           balances |->
                               Put(m.balances, utxo.address,
                                   JsMinus(OrZero(m.balances, utxo.address),
                                           utxo.value))])
             ELSE SpendInputs(Tail(inputs), m)

RECURSIVE AddOutputs(_, _, _, _)
AddOutputs(tx_id, outputs, index, m) ==
    IF outputs = <<>> THEN m
    ELSE LET output == Head(outputs)
         IN  AddOutputs(tx_id, Tail(outputs), index + 1,
                 [utxos |-> Put(m.utxos, UtxoKey(tx_id, index), output),
                  balances |->
                      Put(m.balances, output.address,
                          JsPlus(OrZero(m.balances, output.address),
                                 output.value))])

RECURSIVE UpdateMemory(_, _)
UpdateMemory(txs, m) ==
    IF txs = <<>> THEN m
    ELSE UpdateMemory(Tail(txs),
             AddOutputs(Head(txs).id, Head(txs).outputs, 0,
                        SpendInputs(Head(txs).inputs, m)))

RECURSIVE BalanceStatements(_, _)
\* One upsert for each entry of state.balances.
BalanceStatements(bal, op) ==
    IF DOMAIN bal = {} THEN <<>>
    ELSE LET address == CHOOSE a \in DOMAIN bal : TRUE
         IN  << [op |-> op, address |-> address,
                 balance |-> ToNumber(bal[address])] >>
             \o BalanceStatements(Remove(bal, address), op)

(***************************************************************************)
(* POST /blocks.  failAt = 0: the connection to the store holds; failAt =  *)
(* n > 0: it fails at the n-th statement of the request.                   *)
(***************************************************************************)
\* The part of the handler after validation: the store statements, the
\* update of the in-memory index, the balances upserts, the append.
ApplyBlock(S, block, failAt) ==
    LET stmts == BlockStatements(block)
        r1    == RunStatements(S.db, stmts, failAt)
    IN  IF ~r1.ok
        THEN [state |-> [S EXCEPT !.db = r1.db],
              reply |-> Reply("submit", 500, "StoreError")]
        ELSE
        LET m  == UpdateMemory(block.transactions,
                               [utxos |-> S.utxos, balances |-> S.balances])
            r2 == RunStatements(r1.db,
                      BalanceStatements(m.balances, "upsertBalance"),
                      IF failAt > Len(stmts) THEN failAt - Len(stmts) ELSE 0)
        IN  IF ~r2.ok
            THEN [state |-> [S EXCEPT !.utxos = m.utxos,
                                      !.balances = m.balances,
                                      !.db = r2.db],
                  reply |-> Reply("submit", 500, "StoreError")]
            ELSE [state |-> [blocks |-> Append(S.blocks, block),
                             currentHeight |-> block.height,
                             balances |-> m.balances,
                             utxos |-> m.utxos,
                             db |-> r2.db],
                  reply |-> [Reply("submit", 200, "") EXCEPT
                                 !.height = block.height]]

PostBlocks_WritesBeforeIdCheck(S, block, failAt) ==
    LET v == Validate(S, block)
    IN  IF v.status # 200 /\ v.error # "InvalidBlockId"
        THEN [state |-> S, reply |-> v]
        ELSE IF v.status # 200
        THEN [state |-> ApplyBlock(S, block, failAt).state, reply |-> v]
        ELSE ApplyBlock(S, block, failAt)

PostBlocks(S, block, failAt) ==
    LET v == Validate(S, block)
    IN  IF v.status # 200 THEN [state |-> S, reply |-> v]
        ELSE ApplyBlock(S, block, failAt)

\* GET /blocks: SELECT id, height FROM blocks ORDER BY height.
RECURSIVE OrderByHeight(_)
OrderByHeight(rows) ==
    IF rows = {} THEN <<>>
    ELSE LET first == CHOOSE r \in rows : \A q \in rows : r.height <= q.height
         IN  <<first>> \o OrderByHeight(rows \ {first})

GetBlocks(S) ==
    LET rows == OrderByHeight(S.db.blocks)
    IN  [blocks |-> rows, count |-> Len(rows), currentHeight |-> S.currentHeight]

\* GET /balance/:address: the balances row, 0 when there is none.
GetBalance(S, address) ==
    IF address \in DOMAIN S.db.balances THEN S.db.balances[address] ELSE 0

\* The balance query that leaves a row of 0 for an address without one.
BalanceQuery_CreatesRow(S, address) ==
    [state |-> [S EXCEPT !.db = UpsertBalance(S.db, address,
                                              GetBalance(S, address)).db],
     reply |-> [balance |-> GetBalance(S, address)]
                   @@ Reply("balance", 200, "")]

\* GET /balance/:address as a request: one SELECT, the reply carries the
\* balance.
BalanceQuery(S, address) ==
    [state |-> S,
     reply |-> [balance |-> GetBalance(S, address)]
                   @@ Reply("balance", 200, "")]

\* GET /blocks as a request: one SELECT, the reply carries the listing.
BlocksQuery(S) ==
    [state |-> S,
     reply |-> [listing |-> GetBlocks(S)] @@ Reply("blocks", 200, "")]

(***************************************************************************)
(* POST /rollback.  The height parameter is Number(query.height): an       *)
(* integer n, the fraction n + 1/2, or NaN (a missing or non-numeric       *)
(* parameter).                                                             *)
(***************************************************************************)
IntegerParam(n) == [kind |-> "integer", n |-> n]

FractionParam(n) == [kind |-> "fraction", n |-> n]

NaNParam == [kind |-> "NaN", n |-> 0]

\* The check that lets the target 0 through.
InvalidHeightParam_AllowsZero(t) == t.kind = "NaN" \/ t.n < 0

\* !Number.isFinite(targetHeight) || targetHeight < 1
InvalidHeightParam(t) == t.kind = "NaN" \/ t.n < 1

\* The comparison that lets a target one above the head through.
TargetAboveHead_ByTwo(t, height) == t.n > height + 1

\* targetHeight > state.currentHeight
TargetAboveHead(t, height) ==
    IF t.kind = "fraction" THEN t.n >= height ELSE t.n > height

\* The statements up to DELETE FROM balances; the three that name the
\* deleted transactions run only when there are some.
RollbackStatements(d, t) ==
    LET ids  == DeletedTxIds(d, t.n)
        some == ids # {}
    IN  << [op |-> "selectDeleted", integer |-> (t.kind = "integer")] >>
        \o (IF some THEN << [op |-> "restoreSpent", ids |-> ids],
                            [op |-> "deleteOutputs", ids |-> ids] >>
            ELSE <<>>)
        \o << [op |-> "deleteBlocks", n |-> t.n] >>
        \o (IF some THEN << [op |-> "deleteInputs", ids |-> ids] >> ELSE <<>>)
        \o << [op |-> "selectBalances"], [op |-> "deleteBalances"] >>

(***************************************************************************)
(* POST /rollback: the rebuild of the in-memory UTXO map from the kept     *)
(* blocks.  rebuiltBalances is computed beside it and not used.            *)
(***************************************************************************)
RECURSIVE RebuildInputs(_, _)
RebuildInputs(inputs, m) ==
    IF inputs = <<>> THEN m
    ELSE LET utxoKey == UtxoKey(Head(inputs).txId, Head(inputs).index)
         IN  IF utxoKey \in DOMAIN m.utxos
             THEN LET utxo == m.utxos[utxoKey]
                  IN  RebuildInputs(Tail(inputs),
                          [utxos |-> Remove(m.utxos, utxoKey),
                           balances |->
                               Put(m.balances, utxo.address,
                                   JsMinus(OrZero(m.balances, utxo.address),
                                           utxo.value))])
             ELSE RebuildInputs(Tail(inputs), m)

RECURSIVE RebuildOutputs(_, _, _, _)
RebuildOutputs(tx_id, outputs, idx, m) ==
    IF outputs = <<>> THEN m
    ELSE LET output == Head(outputs)
         IN  RebuildOutputs(tx_id, Tail(outputs), idx + 1,
                 [utxos |-> Put(m.utxos, UtxoKey(tx_id, idx), output),
                  balances |->
                      Put(m.balances, output.address,
                          JsPlus(OrZero(m.balances, output.address),
                                 output.value))])

RECURSIVE RebuildTransactions(_, _)
RebuildTransactions(txs, m) ==
    IF txs = <<>> THEN m
    ELSE RebuildTransactions(Tail(txs),
             RebuildOutputs(Head(txs).id, Head(txs).outputs, 0,
                            RebuildInputs(Head(txs).inputs, m)))

RECURSIVE RebuildBlocks(_, _)
RebuildBlocks(keptBlocks, m) ==
    IF keptBlocks = <<>> THEN m
    ELSE RebuildBlocks(Tail(keptBlocks),
             RebuildTransactions(Head(keptBlocks).transactions, m))

\* The filter that drops the last block, whatever the target.
KeptBlocks_DropsLast(blks, n) == SubSeq(blks, 1, Len(blks) - 1)

\* The filter that drops the block of the target height as well.
KeptBlocks_Below(blks, n) == SelectSeq(blks, LAMBDA b : b.height < n)

\* state.blocks.filter((b) => b.height <= targetHeight)
KeptBlocks(blks, n) == SelectSeq(blks, LAMBDA b : b.height <= n)

PostRollback(S, t, failAt) ==
    IF InvalidHeightParam(t)
    THEN [state |-> S, reply |-> Reply("rollback", 400, "InvalidHeightParam")]
    ELSE IF TargetAboveHead(t, S.currentHeight)
    THEN [state |-> S, reply |-> Reply("rollback", 400, "TargetAboveHead")]
    ELSE
    LET stmts == RollbackStatements(S.db, t)
        r1    == RunStatements(S.db, stmts, failAt)
    IN  IF ~r1.ok
        THEN [state |-> [S EXCEPT !.db = r1.db],
              reply |-> Reply("rollback", 500, "StoreError")]
        ELSE
        LET newBalances == SelectBalances(r1.db)
            r2 == RunStatements(r1.db,
                      BalanceStatements(newBalances, "insertBalance"),
                      IF failAt > Len(stmts) THEN failAt - Len(stmts) ELSE 0)
        IN  IF ~r2.ok
            THEN [state |-> [S EXCEPT !.db = r2.db],
                  reply |-> Reply("rollback", 500, "StoreError")]
            ELSE
            LET keptBlocks == KeptBlocks(S.blocks, t.n)
                rebuilt    == RebuildBlocks(keptBlocks,
                                  [utxos |-> EmptyMap, balances |-> EmptyMap])
            IN  [state |-> [blocks |-> keptBlocks,
                            currentHeight |-> t.n,
                            balances |-> newBalances,
                            utxos |-> rebuilt.utxos,
                            db |-> r2.db],
                 reply |-> [Reply("rollback", 200, "") EXCEPT !.height = t.n]]

(***************************************************************************)
(* POST /reset.                                                            *)
(***************************************************************************)
\* The statements without DELETE FROM balances.
ResetStatements_KeepsBalances ==
    << [op |-> "deleteAllOutputs"], [op |-> "deleteAllInputs"],
       [op |-> "deleteAllTransactions"], [op |-> "deleteAllBlocks"] >>

ResetStatements ==
    << [op |-> "deleteAllOutputs"], [op |-> "deleteAllInputs"],
       [op |-> "deleteAllTransactions"], [op |-> "deleteAllBlocks"],
       [op |-> "deleteBalances"] >>

\* The reset that forgets to empty the balance map.
ResetMemory_KeepsBalances(S) ==
    [S EXCEPT !.blocks = <<>>, !.currentHeight = 0, !.utxos = EmptyMap]

\* state.reset()
ResetMemory(S) ==
    [S EXCEPT !.blocks = <<>>, !.currentHeight = 0,
              !.balances = EmptyMap, !.utxos = EmptyMap]

PostReset(S, failAt) ==
    LET r == RunStatements(S.db, ResetStatements, failAt)
    IN  IF ~r.ok
        THEN [state |-> [S EXCEPT !.db = r.db],
              reply |-> Reply("reset", 500, "StoreError")]
        ELSE [state |-> [ResetMemory(S) EXCEPT !.db = r.db],
              reply |-> Reply("reset", 200, "")]

(***************************************************************************)
(* The requests.                                                           *)
(***************************************************************************)
Heights == 0..MaxHeight

\* A submitted block carries the digest of its height and transaction ids,
\* or an id that is no such digest.
Blocks ==
    {[id |-> IF good THEN ExpectedBlockId(h, txs) ELSE "invalid_id",
      height |-> h, transactions |-> txs] :
        good \in BOOLEAN, h \in Heights, txs \in TransactionLists}

HeightParams ==
    {IntegerParam(n) : n \in 0..MaxHeight} \cup {FractionParam(1), NaNParam}

NoRequest == [op |-> "none"]

\* A request is served in one step.  An observed exchange keeps the request
\* and the reply, and ends the behaviour there; every reachable state is
\* offered every request both ways.
Serve(req, result, observed) ==
    /\ blocks' = result.state.blocks
    /\ currentHeight' = result.state.currentHeight
    /\ balances' = result.state.balances
    /\ utxos' = result.state.utxos
    /\ db' = result.state.db
    /\ reply' = IF observed THEN result.reply ELSE Reply("none", 0, "")
    /\ request' = IF observed THEN req ELSE NoRequest
    /\ UNCHANGED inflight

SubmitBlock ==
    /\ request.op = "none"
    /\ \E block \in Blocks, observed \in BOOLEAN :
           Serve([op |-> "submit", block |-> block],
                 PostBlocks(State, block, 0), observed)

Rollback ==
    /\ request.op = "none"
    /\ \E t \in HeightParams, observed \in BOOLEAN :
           Serve([op |-> "rollback", height |-> t],
                 PostRollback(State, t, 0), observed)

Reset ==
    /\ request.op = "none"
    /\ \E observed \in BOOLEAN :
           Serve([op |-> "reset"], PostReset(State, 0), observed)

QueryBalance ==
    /\ request.op = "none"
    /\ \E address \in Addresses, observed \in BOOLEAN :
           Serve([op |-> "balance", address |-> address],
                 BalanceQuery(State, address), observed)

QueryBlocks ==
    /\ request.op = "none"
    /\ \E observed \in BOOLEAN :
           Serve([op |-> "blocks"], BlocksQuery(State), observed)

Init ==
    /\ blocks = <<>>
    /\ currentHeight = 0
    /\ balances = EmptyMap
    /\ utxos = EmptyMap
    /\ db = EmptyDb
    /\ reply = Reply("none", 0, "")
    /\ request = NoRequest
    /\ inflight = <<>>

Next == SubmitBlock \/ Rollback \/ Reset \/ QueryBalance \/ QueryBlocks

Spec == Init /\ [][Next]_vars

(***************************************************************************)
(* The store can fail.  The connection breaks at the failAt-th statement   *)
(* of a request (dbPool.query rejects, the handler's catch replies 500);   *)
(* a failAt beyond the last statement of the request breaks nothing.  The  *)
(* exchange is kept, as an observed one is.                                *)
(***************************************************************************)
\* The places where a request of the given statements can break, the
\* statements for the balances included.
FailPoints(stmts) == 1..(Len(stmts) + Cardinality(Addresses))

SubmitBlockStoreFails ==
    /\ request.op = "none"
    /\ \E block \in Blocks :
           /\ Validate(State, block).status = 200
           /\ \E failAt \in FailPoints(BlockStatements(block)) :
                  Serve([op |-> "submit", block |-> block, failAt |-> failAt],
                        PostBlocks(State, block, failAt), TRUE)

RollbackStoreFails ==
    /\ request.op = "none"
    /\ \E t \in HeightParams :
           \E failAt \in FailPoints(RollbackStatements(db, t)) :
               Serve([op |-> "rollback", height |-> t, failAt |-> failAt],
                     PostRollback(State, t, failAt), TRUE)

ResetStoreFails ==
    /\ request.op = "none"
    /\ \E failAt \in 1..Len(ResetStatements) :
           Serve([op |-> "reset", failAt |-> failAt],
                 PostReset(State, failAt), TRUE)

NextStoreFailure ==
    Next \/ SubmitBlockStoreFails \/ RollbackStoreFails \/ ResetStoreFails

SpecStoreFailure == Init /\ [][NextStoreFailure]_vars

(***************************************************************************)
(* The process is started again.  The module of index.ts builds state      *)
(* anew, empty, and initDb creates the tables that do not exist yet        *)
(* (CREATE TABLE IF NOT EXISTS): the rows of the store stay, and nothing   *)
(* reads them into the in-memory index before the server listens.          *)
(***************************************************************************)
Restart ==
    /\ request.op = "none"
    /\ blocks' = <<>>
    /\ currentHeight' = 0
    /\ balances' = EmptyMap
    /\ utxos' = EmptyMap
    /\ db' = db
    /\ reply' = Reply("none", 0, "")
    /\ request' = NoRequest
    /\ UNCHANGED inflight

NextRestart == Next \/ Restart

SpecRestart == Init /\ [][NextRestart]_vars

(***************************************************************************)
(* The expected block id as a function of the block alone.  The handler    *)
(* computes it from block.height and block.transactions whatever the state *)
(* of the chain; here it is applied to blocks whose heights and            *)
(* transaction ids make the concatenated strings meet: "12" \o "ab" is     *)
(* "1" \o "2ab", "1" \o "2" \o "ab" and "12" \o "a" \o "b".                *)
(***************************************************************************)
IdHeights == {1, 12}

IdTxIds == {"a", "b", "ab", "2", "2ab"}

\* The transactions given to the function: with and without an input, with
\* one output or two.
IdTransactions ==
    [id : IdTxIds,
     inputs : {<<>>, <<[txId |-> "t1", index |-> 0]>>},
     outputs : OutputLists]

IdBlocks ==
    [height : IdHeights,
     transactions : {<<>>} \cup {<<t>> : t \in IdTransactions}
                    \cup {<<t, u>> : t \in IdTransactions, u \in IdTransactions}]

\* A block is given; nothing is computed yet.
InitBlockId ==
    /\ blocks = <<>>
    /\ currentHeight = 0
    /\ balances = EmptyMap
    /\ utxos = EmptyMap
    /\ db = EmptyDb
    /\ reply = Reply("none", 0, "")
    /\ request \in {[op |-> "blockId", block |-> b] : b \in IdBlocks}
    /\ inflight = <<>>

\* expectedBlockId of the block given.
ComputeBlockId ==
    /\ request.op = "blockId"
    /\ reply.op = "none"
    /\ reply' = [Reply("blockId", 200, "") EXCEPT
                     !.expected = ExpectedBlockId(request.block.height,
                                                  request.block.transactions)]
    /\ UNCHANGED <<blocks, currentHeight, balances, utxos, db, request, inflight>>

NextBlockId == ComputeBlockId

SpecBlockId == InitBlockId /\ [][NextBlockId]_vars

(***************************************************************************)
(* Handlers that overlap.  Every handler is an async function: it runs     *)
(* without interruption from one await to the next, and each await is a    *)
(* dbPool.query.  Nothing serializes two handlers: between two statements  *)
(* of one, statements of another run, together with the code of that other *)
(* handler up to its next await.  A step below is one statement against    *)
(* the store followed by the code of its handler up to the next await.     *)
(* inflight lists the handlers begun since the server was last idle, in    *)
(* the order they began; a handler keeps the state it began in (before),   *)
(* which the server does not have, to compare the outcome with.            *)
(***************************************************************************)
\* The blocks submitted to overlapping handlers: the right id, one
\* transaction that creates value or spends the first output of t1.
OverlapBlocks ==
    {b \in Blocks :
        /\ b.id = ExpectedBlockId(b.height, b.transactions)
        /\ b.height >= 1
        /\ Len(b.transactions) = 1
        /\ Len(b.transactions[1].inputs) <= 1
        /\ \A i \in 1..Len(b.transactions[1].inputs) :
               b.transactions[1].inputs[i].txId = "t1"}

OverlapRequests ==
    {[op |-> "submit", block |-> b] : b \in OverlapBlocks}
        \cup {[op |-> "rollback", height |-> IntegerParam(n)] : n \in 1..MaxHeight}
        \cup {[op |-> "reset"]}

\* A handler that has replied.
Replied(c, r) == [c EXCEPT !.phase = "done", !.todo = <<>>, !.reply = r]

\* The code of a handler from its first line to its first await: the
\* checks, which read the in-memory index and write nothing.
BeginHandler(S, req) ==
    LET c == [op |-> req.op, req |-> req, phase |-> "store", todo |-> <<>>,
              captured |-> EmptyMap, before |-> S,
              reply |-> Reply("none", 0, "")]
    IN  CASE req.op = "submit" ->
                 LET v == Validate(S, req.block)
                 IN  IF v.status # 200 THEN Replied(c, v)
                     ELSE [c EXCEPT !.todo = BlockStatements(req.block)]
          [] req.op = "rollback" ->
                 IF InvalidHeightParam(req.height)
                 THEN Replied(c, Reply("rollback", 400, "InvalidHeightParam"))
                 ELSE IF TargetAboveHead(req.height, S.currentHeight)
                 THEN Replied(c, Reply("rollback", 400, "TargetAboveHead"))
                 ELSE [c EXCEPT !.todo =
                             <<Head(RollbackStatements(S.db, req.height))>>]
          [] req.op = "reset" -> [c EXCEPT !.todo = ResetStatements]

\* blocks.ts 107-110: the append, the new height, the reply.
AcceptBlock(S, c) ==
    [state |-> [S EXCEPT !.blocks = Append(S.blocks, c.req.block),
                         !.currentHeight = c.req.block.height],
     ctx   |-> Replied(c, [Reply("submit", 200, "") EXCEPT
                               !.height = c.req.block.height])]

\* One statement of POST /blocks and the code up to the next await: after
\* the last statement of the block the in-memory update and the first
\* balances upsert (the entries of state.balances as they are then), after
\* the last upsert the append.
StepSubmit(S, c) ==
    LET r    == Execute(S.db, Head(c.todo))
        rest == Tail(c.todo)
        S1   == [S EXCEPT !.db = r.db]
    IN  IF ~r.ok
        THEN [state |-> S, ctx |-> Replied(c, Reply("submit", 500, "StoreError"))]
        ELSE IF rest # <<>>
        THEN [state |-> S1, ctx |-> [c EXCEPT !.todo = rest]]
        ELSE IF c.phase = "balances"
        THEN AcceptBlock(S1, c)
        ELSE
        LET m  == UpdateMemory(c.req.block.transactions,
                               [utxos |-> S.utxos, balances |-> S.balances])
            S2 == [S1 EXCEPT !.utxos = m.utxos, !.balances = m.balances]
            bs == BalanceStatements(m.balances, "upsertBalance")
        IN  IF bs = <<>> THEN AcceptBlock(S2, c)
            ELSE [state |-> S2,
                  ctx |-> [c EXCEPT !.phase = "balances", !.todo = bs]]

\* One statement of POST /rollback and the code up to the next await.  The
\* first SELECT fixes the transactions to delete, the second the balances
\* to insert; after the last INSERT the in-memory index is swapped.
StepRollback(S, c) ==
    LET s    == Head(c.todo)
        r    == Execute(S.db, s)
        S1   == [S EXCEPT !.db = r.db]
        rest == IF s.op = "selectDeleted"
                THEN LET all == RollbackStatements(S.db, c.req.height)
                     IN  SubSeq(all, 2, Len(all) - 1)
                ELSE IF s.op = "selectBalances"
                THEN << [op |-> "deleteBalances"] >>
                     \o BalanceStatements(SelectBalances(S.db), "insertBalance")
                ELSE Tail(c.todo)
        c1   == IF s.op = "selectBalances"
                THEN [c EXCEPT !.captured = SelectBalances(S.db)] ELSE c
    IN  IF ~r.ok
        THEN [state |-> S,
              ctx |-> Replied(c, Reply("rollback", 500, "StoreError"))]
        ELSE IF rest # <<>>
        THEN [state |-> S1, ctx |-> [c1 EXCEPT !.todo = rest]]
        ELSE
        LET keptBlocks == KeptBlocks(S.blocks, c.req.height.n)
            rebuilt    == RebuildBlocks(keptBlocks,
                              [utxos |-> EmptyMap, balances |-> EmptyMap])
        IN  [state |-> [blocks |-> keptBlocks,
                        currentHeight |-> c.req.height.n,
                        balances |-> c.captured,
                        utxos |-> rebuilt.utxos,
                        db |-> r.db],
             ctx |-> Replied(c, [Reply("rollback", 200, "") EXCEPT
                                     !.height = c.req.height.n])]

\* One DELETE of POST /reset; after the last one state.reset().
StepReset(S, c) ==
    LET r    == Execute(S.db, Head(c.todo))
        rest == Tail(c.todo)
        S1   == [S EXCEPT !.db = r.db]
    IN  IF ~r.ok
        THEN [state |-> S, ctx |-> Replied(c, Reply("reset", 500, "StoreError"))]
        ELSE IF rest # <<>>
        THEN [state |-> S1, ctx |-> [c EXCEPT !.todo = rest]]
        ELSE [state |-> ResetMemory(S1),
              ctx |-> Replied(c, Reply("reset", 200, ""))]

StepHandler(S, c) ==
    CASE c.op = "submit"   -> StepSubmit(S, c)
      [] c.op = "rollback" -> StepRollback(S, c)
      [] c.op = "reset"    -> StepReset(S, c)

\* A request arrives while the server is idle, or while one handler is at
\* an await: the two overlap.
Begin ==
    /\ request.op = "none"
    /\ Len(inflight) < 2
    /\ \A i \in 1..Len(inflight) : inflight[i].phase # "done"
    /\ \E req \in OverlapRequests :
           inflight' = Append(inflight, BeginHandler(State, req))
    /\ UNCHANGED <<blocks, currentHeight, balances, utxos, db, reply, request>>

\* A statement of a handler completes and the handler runs to its next
\* await or to its reply.
Step ==
    /\ request.op = "none"
    /\ \E i \in 1..Len(inflight) :
           /\ inflight[i].phase # "done"
           /\ LET r == StepHandler(State, inflight[i])
              IN  /\ blocks' = r.state.blocks
                  /\ currentHeight' = r.state.currentHeight
                  /\ balances' = r.state.balances
                  /\ utxos' = r.state.utxos
                  /\ db' = r.state.db
                  /\ inflight' = [inflight EXCEPT ![i] = r.ctx]
    /\ UNCHANGED <<reply, request>>

\* A handler that ran alone has replied: the server is idle again.  Two
\* handlers that overlapped stay listed with their replies, and the
\* behaviour ends with them.
Retire ==
    /\ request.op = "none"
    /\ Len(inflight) = 1
    /\ inflight[1].phase = "done"
    /\ inflight' = <<>>
    /\ UNCHANGED <<blocks, currentHeight, balances, utxos, db, reply, request>>

NextOverlap == Begin \/ Step \/ Retire \/ QueryBalance \/ QueryBlocks

SpecOverlap == Init /\ [][NextOverlap]_vars

(***************************************************************************)
(* What the claims speak about.                                            *)
(***************************************************************************)
\* The in-memory index and the store.
core == <<blocks, currentHeight, balances, utxos, db>>

RECURSIVE Total(_)
\* The sum of a set of rows, by value.
Total(rows) ==
    IF rows = {} THEN 0
    ELSE LET r == CHOOSE x \in rows : TRUE IN r.value + Total(rows \ {r})

\* The entries of the UTXO set that credit address a.
Unspent(a) ==
    {[key |-> k, value |-> utxos[k].value] :
        k \in {x \in DOMAIN utxos : utxos[x].address = a}}

\* The balance a query returns for address a.
BalanceRow(a) == IF a \in DOMAIN db.balances THEN db.balances[a] ELSE 0

\* C1 (I1 Balance-derivation): after any sequence of requests the balance
\* returned for every address equals the sum of the values of the unspent
\* outputs of that address.
C1_BalanceDerivation ==
    \A a \in Addresses : BalanceRow(a) = Total(Unspent(a))

RECURSIVE Replay(_, _)
\* The state reached by submitting the blocks of a list, in order, to S.
Replay(S, blks) ==
    IF blks = <<>> THEN S
    ELSE Replay(PostBlocks(S, Head(blks), 0).state, Tail(blks))

\* Two balance maps that agree on every address, no entry counting as the
\* number 0.
SameBalances(f, g) ==
    \A a \in Addresses :
        (IF a \in DOMAIN f THEN f[a] ELSE JsNumber(0))
            = (IF a \in DOMAIN g THEN g[a] ELSE JsNumber(0))

\* Two balances tables that agree on every address, no row counting as 0.
SameRows(f, g) ==
    \A a \in Addresses :
        (IF a \in DOMAIN f THEN f[a] ELSE 0) = (IF a \in DOMAIN g THEN g[a] ELSE 0)

\* The same state: journal, height, UTXO set and balances, in memory and in
\* the store.
SameState(S, T) ==
    /\ S.blocks = T.blocks
    /\ S.currentHeight = T.currentHeight
    /\ S.utxos = T.utxos
    /\ SameBalances(S.balances, T.balances)
    /\ S.db.blocks = T.db.blocks
    /\ S.db.transactions = T.db.transactions
    /\ S.db.inputs = T.db.inputs
    /\ S.db.outputs = T.db.outputs
    /\ SameRows(S.db.balances, T.db.balances)

\* C2 (I3 Rollback-is-replay): the state after a successful rollback to
\* height k is the state reached by applying only the blocks B1..Bk, the
\* journal the rollback leaves, to the empty state.
C2_RollbackIsReplay ==
    (request.op = "rollback" /\ reply.status = 200)
        => SameState(State, Replay(EmptyState, blocks))

\* C4: a block submission that ends in a store error leaves the store and
\* the in-memory index as they were before it.
C4_ApplyAllOrNothing ==
    [][(request'.op = "submit" /\ reply'.status = 500) => UNCHANGED core]_vars

\* C10 (I2 Height-contiguity): the heights of the blocks table and of the
\* in-memory block list are exactly 1..currentHeight in ascending order, and
\* the block listing counts currentHeight blocks.
C10_HeightContiguity ==
    /\ {b.height : b \in db.blocks} = 1..currentHeight
    /\ Cardinality(db.blocks) = currentHeight
    /\ Len(blocks) = currentHeight
    /\ \A i \in 1..Len(blocks) : blocks[i].height = i
    /\ GetBlocks(State).count = currentHeight
    /\ \A i \in 1..GetBlocks(State).count : GetBlocks(State).blocks[i].height = i

(***************************************************************************)
(* The validation of a submitted block b against the UTXO set u, as the    *)
(* claims word it.                                                         *)
(***************************************************************************)
\* The key the i-th input of tx references.
KeyAt(tx, i) == UtxoKey(tx.inputs[i].txId, tx.inputs[i].index)

\* The inputs of tx whose key is not in u.
Missing(tx, u) == {i \in 1..Len(tx.inputs) : KeyAt(tx, i) \notin DOMAIN u}

\* The transactions of b with such an input, and the keys they miss.
WithMissing(b, u) ==
    {j \in 1..Len(b.transactions) : Missing(b.transactions[j], u) # {}}

MissingKeys(b, u) ==
    UNION {{KeyAt(b.transactions[j], i) : i \in Missing(b.transactions[j], u)} :
              j \in WithMissing(b, u)}

RECURSIVE InputTotal(_, _, _)
InputTotal(tx, u, n) ==
    IF n = 0 THEN 0 ELSE u[KeyAt(tx, n)].value + InputTotal(tx, u, n - 1)

RECURSIVE OutputTotal(_, _)
OutputTotal(tx, n) ==
    IF n = 0 THEN 0 ELSE tx.outputs[n].value + OutputTotal(tx, n - 1)

\* tx has inputs, all of them in u, and does not conserve value.
Unbalanced(tx, u) ==
    /\ Len(tx.inputs) > 0
    /\ Missing(tx, u) = {}
    /\ InputTotal(tx, u, Len(tx.inputs)) # OutputTotal(tx, Len(tx.outputs))

WithUnbalanced(b, u) ==
    {j \in 1..Len(b.transactions) : Unbalanced(b.transactions[j], u)}

Least(set) == CHOOSE j \in set : \A k \in set : j <= k

RECURSIVE IdsUpTo(_, _)
IdsUpTo(b, n) ==
    IF n = 0 THEN "" ELSE IdsUpTo(b, n - 1) \o b.transactions[n].id

\* The digest of the decimal height followed by the transaction ids.
Digest(b) ==
    "sha256(" \o ToString(b.height) \o IdsUpTo(b, Len(b.transactions)) \o ")"

\* The step serves a block submission.
Submitted == request'.op = "submit"

\* C3: a block rejected by one of the four validation checks mutates
\* nothing: the in-memory index and every table of the store are the same
\* before and after the request.
C3_RejectedMutatesNothing ==
    [][(Submitted /\ reply'.error \in {"InvalidHeight", "InputNotFound",
                                        "ValueMismatch", "InvalidBlockId"})
           => UNCHANGED core]_vars

\* A block with a wrong id is rejected in a state that holds a UTXO.
C3_Witness ==
    /\ request.op = "submit"
    /\ reply.status = 400
    /\ reply.error = "InvalidBlockId"
    /\ DOMAIN utxos # {}

\* C5 (height rule): a block is accepted only if its height is
\* currentHeight + 1 (1 on the empty chain); every other height is rejected
\* with InvalidHeight, whatever the block contains.
C5_HeightRule ==
    [][Submitted =>
          /\ reply'.status = 200 => request'.block.height = currentHeight + 1
          /\ request'.block.height # currentHeight + 1
                 => reply'.status = 400 /\ reply'.error = "InvalidHeight"]_vars

\* The block of the current height is submitted again, with its right id.
C5_Witness ==
    /\ request.op = "submit"
    /\ currentHeight = 1
    /\ request.block.height = 1
    /\ request.block.id = Digest(request.block)
    /\ reply.error = "InvalidHeight"

\* C7 (value conservation): when the height is valid and every input is in
\* the UTXO set, the block is rejected with ValueMismatch exactly when one
\* of its transactions has inputs whose values do not add up to the values
\* of its outputs; no block is rejected with ValueMismatch for a transaction
\* without inputs.
C7_ValueConservation ==
    [][Submitted =>
          LET b == request'.block
              mismatch == reply'.status = 400 /\ reply'.error = "ValueMismatch"
          IN  /\ (b.height = currentHeight + 1 /\ MissingKeys(b, utxos) = {})
                     => (mismatch <=> WithUnbalanced(b, utxos) # {})
              /\ mismatch => \E j \in WithUnbalanced(b, utxos) :
                                 Len(b.transactions[j].inputs) > 0]_vars

\* A block whose second transaction spends more than its outputs hold is
\* rejected after a first transaction without inputs has passed.
C7_Witness ==
    /\ request.op = "submit"
    /\ reply.error = "ValueMismatch"
    /\ Len(request.block.transactions) = 2
    /\ request.block.transactions[1].inputs = <<>>
    /\ Len(request.block.transactions[2].inputs) = 2

\* C6, as claimed: a block of valid height with an input whose key is not in
\* the UTXO set as it was when validation started is rejected with
\* InputNotFound naming such a key.
C6_InputNotFound ==
    [][Submitted =>
          LET b == request'.block
          IN  (b.height = currentHeight + 1 /\ MissingKeys(b, utxos) # {})
                  => /\ reply'.status = 400
                     /\ reply'.error = "InputNotFound"
                     /\ reply'.key \in MissingKeys(b, utxos)]_vars

\* C6, amended: such a block is always rejected, and never sees the outputs
\* of its own transactions; the rejection is InputNotFound naming the first
\* missing key in submission order, unless a transaction placed before the
\* one that holds this input does not conserve value: then it is
\* ValueMismatch.
C6_InputNotFoundAmended ==
    [][Submitted =>
          LET b == request'.block
          IN  (b.height = currentHeight + 1 /\ MissingKeys(b, utxos) # {})
                  => LET j  == Least(WithMissing(b, utxos))
                         tx == b.transactions[j]
                     IN  /\ reply'.status = 400
                         /\ UNCHANGED core
                         /\ IF \E i \in WithUnbalanced(b, utxos) : i < j
                            THEN reply'.error = "ValueMismatch"
                            ELSE /\ reply'.error = "InputNotFound"
                                 /\ reply'.key = KeyAt(tx, Least(Missing(tx, utxos)))]_vars

\* The second transaction of a block spends the first output of the first,
\* a transaction without inputs: the block is rejected with InputNotFound
\* naming that output.
C6_Witness ==
    /\ request.op = "submit"
    /\ Len(request.block.transactions) = 2
    /\ request.block.transactions[1].inputs = <<>>
    /\ Len(request.block.transactions[2].inputs) = 1
    /\ request.block.transactions[2].inputs[1].txId
           = request.block.transactions[1].id
    /\ reply.error = "InputNotFound"
    /\ reply.key = UtxoKey(request.block.transactions[1].id, 0)

\* The error the claimed order of the checks reports: height, then the
\* existence of every input of every transaction, then the conservation of
\* each transaction, then the block id.  "" when all four pass.
ClaimedError(b, h, u) ==
    IF b.height # h + 1 THEN "InvalidHeight"
    ELSE IF MissingKeys(b, u) # {} THEN "InputNotFound"
    ELSE IF WithUnbalanced(b, u) # {} THEN "ValueMismatch"
    ELSE IF b.id # Digest(b) THEN "InvalidBlockId"
    ELSE ""

\* The error of the order height, then transaction by transaction the
\* existence of its inputs and its conservation, then the block id.
InterleavedError(b, h, u) ==
    LET failing == WithMissing(b, u) \cup WithUnbalanced(b, u)
    IN  IF b.height # h + 1 THEN "InvalidHeight"
        ELSE IF failing # {}
        THEN (IF Least(failing) \in WithMissing(b, u)
              THEN "InputNotFound" ELSE "ValueMismatch")
        ELSE IF b.id # Digest(b) THEN "InvalidBlockId"
        ELSE ""

\* C8, as claimed: a block that violates several rules is reported with the
\* error of the first failing check in the order height, existence of all
\* inputs of the block, conservation, identity.
C8_ValidationOrder ==
    [][Submitted =>
          LET e == ClaimedError(request'.block, currentHeight, utxos)
          IN  e # "" => reply'.status = 400 /\ reply'.error = e]_vars

\* C8, amended: the order is height, then for each transaction in
\* submission order the existence of its inputs followed by its
\* conservation, then identity; a block that passes all of them is not
\* rejected.
C8_ValidationOrderAmended ==
    [][Submitted =>
          LET e == InterleavedError(request'.block, currentHeight, utxos)
          IN  /\ e # "" => reply'.status = 400 /\ reply'.error = e
              /\ e = "" => reply'.status # 400]_vars

\* The example of the claim: the first transaction does not conserve value,
\* the second references a missing UTXO, and the id is wrong as well; the
\* reply is ValueMismatch.
C8_Witness ==
    /\ request.op = "submit"
    /\ Len(request.block.transactions) = 2
    /\ Unbalanced(request.block.transactions[1], utxos)
    /\ Missing(request.block.transactions[2], utxos) # {}
    /\ request.block.id # Digest(request.block)
    /\ reply.error = "ValueMismatch"

\* The block passes the height, UTXO and value checks.
PassesThreeChecks(b, h, u) ==
    /\ b.height = h + 1
    /\ MissingKeys(b, u) = {}
    /\ WithUnbalanced(b, u) = {}

\* Every statement that writes block b finds its keys free: no blocks row
\* with its id or height, its transaction ids pairwise distinct and in no
\* transactions row, no outputs row of these ids.
StoreTakes(b, d) ==
    /\ \A r \in d.blocks : r.id # b.id /\ r.height # b.height
    /\ \A j, k \in 1..Len(b.transactions) :
           j # k => b.transactions[j].id # b.transactions[k].id
    /\ \A j \in 1..Len(b.transactions) :
           /\ \A t \in d.transactions : t.id # b.transactions[j].id
           /\ \A o \in d.outputs : o.txid # b.transactions[j].id

\* C9, as claimed: a block that passes the first three checks is accepted if
\* and only if its id is the digest; otherwise it is rejected with
\* InvalidBlockId carrying the expected digest and the received id.
C9_BlockIdentity ==
    [][Submitted =>
          LET b == request'.block
          IN  PassesThreeChecks(b, currentHeight, utxos)
                  => /\ reply'.status = 200 <=> b.id = Digest(b)
                     /\ b.id # Digest(b)
                            => /\ reply'.status = 400
                               /\ reply'.error = "InvalidBlockId"
                               /\ reply'.expected = Digest(b)
                               /\ reply'.received = b.id]_vars

\* C9, amended: such a block is rejected with InvalidBlockId, carrying the
\* expected digest and the received id, if and only if its id is not the
\* digest; with the digest as id it is accepted if and only if every store
\* statement of the apply succeeds, and ends in a store error (500)
\* otherwise.
C9_BlockIdentityAmended ==
    [][Submitted =>
          LET b == request'.block
          IN  PassesThreeChecks(b, currentHeight, utxos)
                  => /\ b.id # Digest(b)
                            => /\ reply'.status = 400
                               /\ reply'.error = "InvalidBlockId"
                               /\ reply'.expected = Digest(b)
                               /\ reply'.received = b.id
                     /\ b.id = Digest(b)
                            => /\ reply'.status \in {200, 500}
                               /\ reply'.status = 200 <=> StoreTakes(b, db)
                     /\ reply'.status = 200
                            => /\ reply'.height = b.height
                               /\ currentHeight' = b.height]_vars

\* A block that spends a UTXO and conserves value carries a wrong id: it is
\* rejected with the digest it should have carried.
C9_Witness ==
    /\ request.op = "submit"
    /\ Len(request.block.transactions) = 1
    /\ Len(request.block.transactions[1].inputs) = 1
    /\ reply.error = "InvalidBlockId"
    /\ reply.expected = Digest(request.block)
    /\ reply.received = "invalid_id"

(***************************************************************************)
(* Store and memory, rollback and reset.                                   *)
(***************************************************************************)
\* The (id, height) entries of a block list.
JournalEntries(blks) ==
    {[id |-> blks[i].id, height |-> blks[i].height] : i \in 1..Len(blks)}

\* The outputs rows with is_spent = FALSE, as UTXO map entries.
UnspentRows(d) ==
    {[key |-> UtxoKey(o.txid, o.idx), address |-> o.address, value |-> o.value] :
        o \in {x \in d.outputs : ~x.is_spent}}

\* The entries of a UTXO map.
UtxoEntries(u) ==
    {[key |-> k, address |-> u[k].address, value |-> u[k].value] : k \in DOMAIN u}

\* C11 (I5 Store-memory agreement): the in-memory block list has the (id,
\* height) entries of the blocks table, the UTXO map has exactly the keys,
\* addresses and values of the unspent outputs rows, and the in-memory
\* balance of each address is the number in its balances row, no entry and
\* no row counting as 0.
C11_StoreMemoryAgreement ==
    /\ JournalEntries(blocks) = db.blocks
    /\ UtxoEntries(utxos) = UnspentRows(db)
    /\ \A a \in Addresses : ToNumber(OrZero(balances, a)) = BalanceRow(a)

\* C12 (submit/rollback round trip): from a state of height h >= 1, a block
\* of height h + 1 that is accepted, followed by a rollback to h, gives back
\* the UTXO set and the balances of before: the same keys with the same
\* values, in memory and in the store.
C12_SubmitRollbackRoundTrip ==
    (request.op = "none" /\ currentHeight >= 1)
        => \A b \in Blocks :
               LET submitted == PostBlocks(State, b, 0)
                   undone    == PostRollback(submitted.state,
                                             IntegerParam(currentHeight), 0)
               IN  (b.height = currentHeight + 1 /\ submitted.reply.status = 200)
                       => /\ undone.reply.status = 200
                          /\ undone.state.utxos = utxos
                          /\ undone.state.balances = balances
                          /\ undone.state.db.outputs = db.outputs
                          /\ undone.state.db.balances = db.balances

\* A rollback request was served.
RolledBack == request'.op = "rollback"

\* Twice the number a height parameter stands for (NaN apart).
Twice(t) == 2 * t.n + (IF t.kind = "fraction" THEN 1 ELSE 0)

\* C13 (rollback parameter validation): a rollback whose height parameter is
\* missing or non-numeric, not an integer, or less than 1 is rejected with
\* InvalidHeightParam (400) and changes no state.
C13_RollbackParameter ==
    [][RolledBack =>
          LET t == request'.height
          IN  (t.kind # "integer" \/ t.n < 1)
                  => /\ reply'.status = 400
                     /\ reply'.error = "InvalidHeightParam"
                     /\ UNCHANGED core]_vars

\* C14: a rollback whose target height is a number of at least 1 and
\* greater than currentHeight is rejected with TargetAboveHead (400) and
\* changes no state; on the empty chain this is every target of at least 1.
C14_TargetAboveHead ==
    [][RolledBack =>
          LET t == request'.height
          IN  (t.kind # "NaN" /\ Twice(t) >= 2 /\ Twice(t) > 2 * currentHeight)
                  => /\ reply'.status = 400
                     /\ reply'.error = "TargetAboveHead"
                     /\ UNCHANGED core]_vars

\* A rollback to height 2 of a chain of one block was rejected with
\* TargetAboveHead.
C14_Witness ==
    /\ request.op = "rollback"
    /\ request.height = IntegerParam(2)
    /\ currentHeight = 1
    /\ Len(blocks) = 1
    /\ reply.status = 400
    /\ reply.error = "TargetAboveHead"

\* C15: a rollback to the current height (at least 1) succeeds, reports
\* that height, and leaves the block journal, the UTXO set and every
\* balance, in memory and in the store, as they were.
C15_RollbackToHeadIsNoOp ==
    [][(RolledBack /\ request'.height = IntegerParam(currentHeight)
                   /\ currentHeight >= 1)
              => /\ reply'.status = 200
                 /\ reply'.height = currentHeight
                 /\ UNCHANGED <<blocks, currentHeight, utxos, balances>>
                 /\ db'.blocks = db.blocks
                 /\ db'.outputs = db.outputs
                 /\ db'.balances = db.balances]_vars

\* C16: after a successful rollback to height k, currentHeight is k, the
\* reply carries k, and the in-memory block list and the blocks table hold
\* exactly the blocks of heights 1..k they held before, unchanged and in
\* order.
C16_RollbackJournal ==
    [][(RolledBack /\ reply'.status = 200) =>
          LET k == request'.height.n
          IN  /\ request'.height.kind = "integer"
              /\ currentHeight' = k
              /\ reply'.height = k
              /\ Len(blocks') = k
              /\ \A i \in 1..k : blocks'[i] = blocks[i] /\ blocks'[i].height = i
              /\ db'.blocks = {r \in db.blocks : r.height <= k}
              /\ {r.height : r \in db'.blocks} = 1..k]_vars

\* A rollback to height 1 succeeded and left a journal of one block.
C16_Witness ==
    /\ request.op = "rollback"
    /\ request.height = IntegerParam(1)
    /\ reply.status = 200
    /\ reply.height = 1
    /\ currentHeight = 1
    /\ Len(blocks) = 1
    /\ Cardinality(db.blocks) = 1

\* C17 (re-submission after rollback): with blocks B1..Bn applied to the
\* empty state and nothing else, a rollback to a height k < n followed by
\* the identical block B(k+1) is accepted with height k + 1 and gives the
\* state that applying B1..B(k+1) to the empty state gives.
C17_Resubmission ==
    (request.op = "none" /\ State = Replay(EmptyState, blocks))
        => \A k \in 1..(currentHeight - 1) :
               LET undone == PostRollback(State, IntegerParam(k), 0)
                   again  == PostBlocks(undone.state, blocks[k + 1], 0)
               IN  /\ undone.reply.status = 200
                   /\ again.reply.status = 200
                   /\ again.reply.height = k + 1
                   /\ SameState(again.state,
                                Replay(EmptyState, SubSeq(blocks, 1, k + 1)))

\* C18 (I4 Reset-is-identity): a reset leaves the instance in the state of
\* a fresh one, in memory and in the store, so that every sequence of
\* requests served after it gets the replies and reaches the states it gets
\* and reaches on a fresh instance.
C18_ResetIsIdentity ==
    [][/\ Reset => State' = EmptyState
       /\ (Reset /\ request' = NoRequest) => Init']_vars

\* A reset was served with success and the instance is as a fresh one.
C18_Witness ==
    /\ request.op = "reset"
    /\ reply.status = 200
    /\ State = EmptyState

\* C19: after a successful reset currentHeight is 0, the in-memory block
\* list, UTXO map and balance map are empty, the five tables are empty, the
\* block listing counts 0 blocks and every balance query returns 0.
C19_ResetEmptiesAll ==
    (request.op = "reset" /\ reply.status = 200)
        => /\ currentHeight = 0
           /\ blocks = <<>>
           /\ DOMAIN utxos = {}
           /\ DOMAIN balances = {}
           /\ db.blocks = {}
           /\ db.transactions = {}
           /\ DOMAIN db.inputs = {}
           /\ db.outputs = {}
           /\ DOMAIN db.balances = {}
           /\ BlocksQuery(State).reply.listing.count = 0
           /\ \A a \in Addresses : BalanceQuery(State, a).reply.balance = 0

\* A reset was served with success; the listing is empty and the balances
\* are 0.
C19_Witness ==
    /\ request.op = "reset"
    /\ reply.status = 200
    /\ GetBlocks(State).count = 0
    /\ \A a \in Addresses : GetBalance(State, a) = 0

\* C20: a balance query for an address with no balances row returns 0 and
\* succeeds; balance and block-list queries change neither the store nor
\* the in-memory index, so that the address has no entry afterwards either.
C20_QueriesChangeNothing ==
    [][/\ request'.op = "balance"
            => /\ reply'.status = 200
               /\ UNCHANGED core
               /\ request'.address \notin DOMAIN db.balances
                      => /\ reply'.balance = 0
                         /\ request'.address \notin DOMAIN db'.balances
       /\ request'.op = "blocks"
            => /\ reply'.status = 200
               /\ UNCHANGED core]_vars

\* The balance of an address without a row was asked for on a chain that
\* credits another address, and 0 was returned.
C20_Witness ==
    /\ request.op = "balance"
    /\ request.address \notin DOMAIN db.balances
    /\ DOMAIN db.balances # {}
    /\ currentHeight >= 1
    /\ reply.status = 200
    /\ reply.balance = 0

\* C23: a rollback that ends in a store error leaves the system in its
\* pre-rollback state, in the store and in memory.
C23_RollbackFailureAtomic ==
    [][(request'.op = "rollback" /\ reply'.status = 500) => UNCHANGED core]_vars

\* C29: a reset that ends in a store error changes neither the store nor
\* the in-memory index.
C29_ResetAtomic ==
    [][(request'.op = "reset" /\ reply'.status = 500) => UNCHANGED core]_vars

(***************************************************************************)
(* The journal: the transactions of the in-memory block list, each at its  *)
(* place <<block, transaction>>, and the inputs at <<block, transaction,   *)
(* input>>.                                                                *)
(***************************************************************************)
TxPlaces(blks) ==
    UNION {{<<i, j>> : j \in 1..Len(blks[i].transactions)} : i \in 1..Len(blks)}

TxAt(blks, p) == blks[p[1]].transactions[p[2]]

InputPlaces(blks) ==
    UNION {{<<p[1], p[2], n>> : n \in 1..Len(TxAt(blks, p).inputs)} :
              p \in TxPlaces(blks)}

\* The key the input at place q references.
RefAt(blks, q) == KeyAt(TxAt(blks, <<q[1], q[2]>>), q[3])

\* No two transactions of the block list have the same id.
DistinctIds(blks) ==
    \A p, q \in TxPlaces(blks) : p # q => TxAt(blks, p).id # TxAt(blks, q).id

\* Block b holds a transaction id twice, or one the block list holds.
RepeatsId(b, blks) ==
    LET own == TxPlaces(<<b>>)
    IN  \/ ~DistinctIds(<<b>>)
        \/ \E p \in own, q \in TxPlaces(blks) :
               TxAt(<<b>>, p).id = TxAt(blks, q).id

\* C24: no two transactions of the block journal have the same id, and a
\* block that repeats an id of the journal, or holds an id twice, is not
\* accepted.
C24_UniqueTransactionIds ==
    [][/\ DistinctIds(blocks')
       /\ (Submitted /\ RepeatsId(request'.block, blocks))
              => reply'.status # 200 /\ blocks' = blocks]_vars

\* A block of valid height and id that holds the id of a journal
\* transaction ended in an error, the journal keeping its one block.
C24_Witness ==
    /\ request.op = "submit"
    /\ Len(blocks) = 1
    /\ request.block.height = 2
    /\ request.block.id = Digest(request.block)
    /\ RepeatsId(request.block, blocks)
    /\ reply.status = 500

\* C25: the in-memory balance of every address, 0 without an entry, is the
\* sum of the values of the entries of the in-memory UTXO map that credit
\* the address.
C25_BalanceMapIsProjection ==
    \A a \in Addresses : ToNumber(OrZero(balances, a)) = Total(Unspent(a))

\* The balances row of address a in store d, 0 without a row.
RowOf(d, a) == IF a \in DOMAIN d.balances THEN d.balances[a] ELSE 0

\* The UTXO keys the inputs of block b reference.
SpentKeys(b) == {RefAt(<<b>>, q) : q \in InputPlaces(<<b>>)}

\* The outputs of block b as UTXO entries, under the keys "{t.id}:{idx}".
NewEntries(b) ==
    UNION {{[key |-> UtxoKey(TxAt(<<b>>, p).id, n - 1),
             address |-> TxAt(<<b>>, p).outputs[n].address,
             value |-> TxAt(<<b>>, p).outputs[n].value] :
                n \in 1..Len(TxAt(<<b>>, p).outputs)} :
              p \in TxPlaces(<<b>>)}

\* What block b adds to the balance of address a, given the UTXO map u.
NetEffect(b, u, a) ==
    Total({e \in NewEntries(b) : e.address = a})
        - Total({[key |-> k, value |-> u[k].value] :
                    k \in {x \in SpentKeys(b) : u[x].address = a}})

\* C26: an accepted block changes the balance of every address, in the
\* store and in memory, by its net effect (the new outputs of the address
\* less its outputs the block spends), and the UTXO map loses exactly the
\* spent keys and gains exactly the new outputs.
C26_NetEffect ==
    [][(Submitted /\ reply'.status = 200) =>
          LET b == request'.block
          IN  /\ UtxoEntries(utxos')
                     = {e \in UtxoEntries(utxos) : e.key \notin SpentKeys(b)}
                           \cup NewEntries(b)
              /\ \A a \in Addresses :
                     /\ RowOf(db', a) = RowOf(db, a) + NetEffect(b, utxos, a)
                     /\ ToNumber(OrZero(balances', a))
                            = ToNumber(OrZero(balances, a))
                                  + NetEffect(b, utxos, a)]_vars

\* The rows the store holds for a block list: its transactions, its inputs
\* (a bag) and its outputs, an output being spent when an input of the list
\* references it.
JournalTransactions(blks) ==
    {[id |-> TxAt(blks, p).id, block_id |-> blks[p[1]].id] : p \in TxPlaces(blks)}

JournalInputRow(blks, q) ==
    LET tx == TxAt(blks, <<q[1], q[2]>>)
    IN  [tx_id |-> tx.id, spent_utxo_txid |-> tx.inputs[q[3]].txId,
         spent_utxo_index |-> tx.inputs[q[3]].index]

JournalInputs(blks) ==
    LET rows == {JournalInputRow(blks, q) : q \in InputPlaces(blks)}
    IN  [r \in rows |->
            Cardinality({q \in InputPlaces(blks) : JournalInputRow(blks, q) = r})]

JournalOutputs(blks) ==
    UNION {{[txid |-> TxAt(blks, p).id, idx |-> n - 1,
             address |-> TxAt(blks, p).outputs[n].address,
             value |-> TxAt(blks, p).outputs[n].value,
             is_spent |-> \E q \in InputPlaces(blks) :
                              RefAt(blks, q) = UtxoKey(TxAt(blks, p).id, n - 1)] :
                n \in 1..Len(TxAt(blks, p).outputs)} :
              p \in TxPlaces(blks)}

\* C27: after a successful rollback the outputs table holds exactly the
\* outputs of the blocks kept, an output being flagged spent if and only if
\* an input of a kept block references it, and the transactions and inputs
\* tables hold exactly the rows of the kept blocks.
C27_RollbackStoreCleanup ==
    (request.op = "rollback" /\ reply.status = 200)
        => /\ db.outputs = JournalOutputs(blocks)
           /\ db.transactions = JournalTransactions(blocks)
           /\ db.inputs = JournalInputs(blocks)

\* A rollback to height 1 succeeded; the kept block has outputs, all
\* unspent, and no input.
C27_Witness ==
    /\ request.op = "rollback"
    /\ reply.status = 200
    /\ currentHeight = 1
    /\ db.outputs # {}
    /\ \A o \in db.outputs : ~o.is_spent
    /\ DOMAIN db.inputs = {}

\* Two inputs of the block list, or of block b, reference the same key.
DoubleReference(blks) ==
    \E q, r \in InputPlaces(blks) : q # r /\ RefAt(blks, q) = RefAt(blks, r)

\* C30 (no double spend): no output is referenced by two inputs of the
\* block journal, and a block in which two inputs reference the same key is
\* not accepted.
C30_NoDoubleSpend ==
    [][/\ ~DoubleReference(blocks')
       /\ (Submitted /\ DoubleReference(<<request'.block>>))
              => reply'.status # 200]_vars

(***************************************************************************)
(* Overlapping handlers against the serial contract.                       *)
(***************************************************************************)
\* What a request gives when its handler runs alone on state S.
Outcome(S, req) ==
    CASE req.op = "submit"   -> PostBlocks(S, req.block, 0)
      [] req.op = "rollback" -> PostRollback(S, req.height, 0)
      [] req.op = "reset"    -> PostReset(S, 0)

\* The state two requests give when the second is served after the first.
Serial(S, first, second) == Outcome(Outcome(S, first).state, second).state

\* Two handlers overlapped and both have replied.
BothReplied ==
    /\ Len(inflight) = 2
    /\ inflight[1].phase = "done"
    /\ inflight[2].phase = "done"

\* The state is the one the two requests give served one after the other,
\* in one of the two orders, from the state the first handler began in.
SerialOutcome ==
    LET S == inflight[1].before
    IN  \/ State = Serial(S, inflight[1].req, inflight[2].req)
        \/ State = Serial(S, inflight[2].req, inflight[1].req)

\* C21: a balance or block-list query served while one submission,
\* rollback or reset is in flight returns what it returns on the state
\* before that request or on the state that request gives when it runs
\* alone.
C21_ReadsSeeNoHalfMutation ==
    (request.op \in {"balance", "blocks"} /\ Len(inflight) = 1)
        => LET S == inflight[1].before
               T == Outcome(S, inflight[1].req).state
           IN  IF request.op = "balance"
               THEN reply \in {BalanceQuery(S, request.address).reply,
                               BalanceQuery(T, request.address).reply}
               ELSE reply \in {BlocksQuery(S).reply, BlocksQuery(T).reply}

\* C22: when two block submissions overlap, at most one of them is accepted
\* for a height, and the final state is the one the two give when served
\* one after the other in some order.
C22_SubmissionsSerialized ==
    (BothReplied /\ inflight[1].op = "submit" /\ inflight[2].op = "submit")
        => /\ SerialOutcome
           /\ ~ /\ inflight[1].reply.status = 200
                /\ inflight[2].reply.status = 200
                /\ inflight[1].req.block.height = inflight[2].req.block.height

\* Two submissions of blocks of the same valid height, with different
\* transactions, overlapped; one was accepted and the other ended at the
\* store.
C22_Witness ==
    /\ BothReplied
    /\ inflight[1].op = "submit"
    /\ inflight[2].op = "submit"
    /\ inflight[1].req.block.height = inflight[2].req.block.height
    /\ inflight[1].req.block.id # inflight[2].req.block.id
    /\ inflight[2].reply.status = 200
    /\ inflight[1].reply.status = 500
    /\ currentHeight = inflight[2].req.block.height

\* C28: when a block submission and a rollback overlap, the final store and
\* in-memory index are those the two requests give when served one after
\* the other in some order.
C28_SubmitRollbackSerialized ==
    (BothReplied /\ {inflight[1].op, inflight[2].op} = {"submit", "rollback"})
        => SerialOutcome

(***************************************************************************)
(* Supply.                                                                 *)
(***************************************************************************)
\* The transactions of a block list that have no input.
CoinbasePlaces(blks) == {p \in TxPlaces(blks) : TxAt(blks, p).inputs = <<>>}

\* The value the coinbase transactions of a block list create.
CoinbaseTotal(blks) ==
    Total({[key |-> p,
            value |-> OutputTotal(TxAt(blks, p), Len(TxAt(blks, p).outputs))] :
              p \in CoinbasePlaces(blks)})

\* The sum of the balances rows, of the in-memory balances and of the
\* values of the UTXO map.
RowSupply(d) == Total({[key |-> a, value |-> RowOf(d, a)] : a \in Addresses})

MemorySupply(bal) ==
    Total({[key |-> a, value |-> ToNumber(OrZero(bal, a))] : a \in Addresses})

UtxoSupply(u) == Total(UtxoEntries(u))

\* C31 (supply conservation): in every state the balances, in the store
\* and in memory, and the values of the unspent outputs add up to the value
\* the coinbase transactions of the block journal created, and an accepted
\* block changes these totals by the outputs of its coinbase transactions
\* only.
C31_SupplyConservation ==
    [][/\ RowSupply(db') = CoinbaseTotal(blocks')
       /\ MemorySupply(balances') = CoinbaseTotal(blocks')
       /\ UtxoSupply(utxos') = CoinbaseTotal(blocks')
       /\ (Submitted /\ reply'.status = 200)
              => LET minted == CoinbaseTotal(<<request'.block>>)
                 IN  /\ RowSupply(db') = RowSupply(db) + minted
                     /\ MemorySupply(balances') = MemorySupply(balances) + minted
                     /\ UtxoSupply(utxos') = UtxoSupply(utxos) + minted]_vars

(***************************************************************************)
(* Progress after a failed submission.                                     *)
(***************************************************************************)
\* The transaction ids of block b are pairwise distinct and new: no block
\* of the journal and no row of the store carries one of them.
FreshIds(b, blks, d) ==
    /\ ~RepeatsId(b, blks)
    /\ \A p \in TxPlaces(<<b>>) :
           /\ \A t \in d.transactions : t.id # TxAt(<<b>>, p).id
           /\ \A i \in DOMAIN d.inputs : i.tx_id # TxAt(<<b>>, p).id
           /\ \A o \in d.outputs : o.txid # TxAt(<<b>>, p).id

\* C32: in every state reached by served requests, those that ended in a
\* store error included, a block of height currentHeight + 1 that passes
\* the four validation checks and carries fresh transaction ids is
\* accepted.
C32_FailedSubmissionNeverWedges ==
    [][Submitted =>
          LET b == request'.block
          IN  (/\ PassesThreeChecks(b, currentHeight, utxos)
               /\ b.id = Digest(b)
               /\ FreshIds(b, blocks, db))
                  => /\ reply'.status = 200
                     /\ currentHeight' = b.height]_vars

(***************************************************************************)
(* The height under rollbacks.                                             *)
(***************************************************************************)
\* C33: once a block is accepted the height leaves 1.. only by a reset; a
\* rollback, accepted or rejected, never raises currentHeight, and from a
\* height of at least 1 it never brings currentHeight to 0 nor empties the
\* block journal, in memory or in the store.
C33_HeightFloor ==
    [][/\ (currentHeight >= 1 /\ currentHeight' < 1) => Reset
       /\ RolledBack
              => /\ currentHeight' <= currentHeight
                 /\ currentHeight >= 1
                        => /\ currentHeight' >= 1
                           /\ blocks' # <<>>
                           /\ db'.blocks # {}]_vars

\* A rollback to height 0 was asked of a journal of two blocks: it is
\* rejected and the two blocks stay.
C33_Witness ==
    /\ request.op = "rollback"
    /\ request.height = IntegerParam(0)
    /\ reply.status = 400
    /\ reply.error = "InvalidHeightParam"
    /\ currentHeight = 2
    /\ Len(blocks) = 2
    /\ Cardinality(db.blocks) = 2

(***************************************************************************)
(* Rollbacks one after the other.                                          *)
(***************************************************************************)
\* The state a rollback to height k gives from S.
RollbackTo(S, k) == PostRollback(S, IntegerParam(k), 0).state

\* C34 (rollbacks compose): after a rollback to a height j in
\* 1..currentHeight, a rollback to a height k <= j gives the state the
\* rollback to k gives when it is served instead of the one to j; both
\* succeed, and a second rollback to j changes nothing.
C34_RollbacksCompose ==
    [][(/\ RolledBack
        /\ request'.height.kind = "integer"
        /\ request'.height.n \in 1..currentHeight)
           => /\ reply'.status = 200
              /\ \A k \in 1..request'.height.n :
                     /\ PostRollback(State', IntegerParam(k), 0).reply.status = 200
                     /\ PostRollback(State, IntegerParam(k), 0).reply.status = 200
                     /\ RollbackTo(State', k) = RollbackTo(State, k)
              /\ RollbackTo(State', request'.height.n) = State']_vars

\* A rollback to height 2 was served on a journal of two blocks, the second
\* spending the output of the first; a rollback to height 1 from here
\* drops the second block and makes that output unspent again.
C34_Witness ==
    /\ request.op = "rollback"
    /\ request.height = IntegerParam(2)
    /\ reply.status = 200
    /\ Len(blocks) = 2
    /\ DOMAIN db.inputs # {}
    /\ Len(RollbackTo(State, 1).blocks) = 1
    /\ RollbackTo(State, 1).utxos # utxos
    /\ \A o \in RollbackTo(State, 1).db.outputs : ~o.is_spent

(***************************************************************************)
(* The values of balances.  Every output of every submitted block has the  *)
(* value 1, a non-negative integer.                                        *)
(***************************************************************************)
\* C35: every balance is a non-negative integer: every entry of
\* state.balances is a number of 0 or more, and so is every row of the
\* balances table.
C35_BalancesNonNegativeIntegers ==
    /\ \A a \in DOMAIN balances :
           balances[a].type = "number" /\ balances[a].n \in Nat
    /\ \A a \in DOMAIN db.balances : db.balances[a] \in Nat

(***************************************************************************)
(* The index after a restart.                                              *)
(***************************************************************************)
\* The highest height of the blocks table, 0 when it is empty.
StoredHeight(d) ==
    IF d.blocks = {} THEN 0
    ELSE CHOOSE h \in {r.height : r \in d.blocks} :
             \A r \in d.blocks : r.height <= h

\* C36: when the process is started again on a store that holds the blocks
\* it had accepted, the in-memory index agrees with the store before a
\* request is served: the block list, currentHeight, the UTXO map and the
\* balances are those of the store, a valid block of the highest stored
\* height plus one with fresh transaction ids is accepted, and a block of
\* height 1 is rejected with InvalidHeight.
C36_RestartAgreement ==
    [][(/\ Restart
        /\ currentHeight >= 1
        /\ JournalEntries(blocks) = db.blocks)
           => /\ JournalEntries(blocks') = db'.blocks
              /\ currentHeight' = StoredHeight(db')
              /\ UtxoEntries(utxos') = UnspentRows(db')
              /\ \A a \in Addresses :
                     ToNumber(OrZero(balances', a)) = RowOf(db', a)
              /\ \A b \in Blocks :
                     LET served == PostBlocks(State', b, 0).reply
                     IN  /\ (/\ b.height = StoredHeight(db') + 1
                             /\ PassesThreeChecks(b, currentHeight, utxos)
                             /\ b.id = Digest(b)
                             /\ FreshIds(b, blocks, db))
                                => served.status = 200
                         /\ b.height = 1
                                => /\ served.status = 400
                                   /\ served.error = "InvalidHeight"]_vars

(***************************************************************************)
(* The expected block id and the concatenated string.                      *)
(***************************************************************************)
\* The decimal height of b followed by its transaction ids, in order.
Concatenated(b) == ToString(b.height) \o IdsUpTo(b, Len(b.transactions))

\* The transaction ids of b, in order.
IdList(b) == [j \in 1..Len(b.transactions) |-> b.transactions[j].id]

\* C37: the expected block id depends only on the decimal height
\* concatenated with the transaction ids: every block whose concatenated
\* string is that of the block given has the expected id computed for the
\* block given, whatever its height and its division into transaction ids,
\* and so has every block of the same height and the same transaction ids
\* in the same order, whatever its inputs and outputs.
C37_IdOfConcatenation ==
    reply.op = "blockId"
        => \A c \in IdBlocks :
               /\ Concatenated(c) = Concatenated(request.block)
                      => ExpectedBlockId(c.height, c.transactions) = reply.expected
               /\ (c.height = request.block.height
                   /\ IdList(c) = IdList(request.block))
                      => ExpectedBlockId(c.height, c.transactions) = reply.expected

\* The id of the block of height 12 with the one transaction "ab" is
\* computed: it is the id of the block of height 1 with the one transaction
\* "2ab".
C37_Witness ==
    /\ reply.op = "blockId"
    /\ request.block.height = 12
    /\ IdList(request.block) = <<"ab">>
    /\ \E c \in IdBlocks :
           /\ c.height = 1
           /\ IdList(c) = <<"2ab">>
           /\ Concatenated(c) = Concatenated(request.block)
           /\ ExpectedBlockId(c.height, c.transactions) = reply.expected
====
